---- MODULE Spec2Model ----
(***************************************************************************)
(* Model of the mortality predictor of src/main.py: the country/sex life   *)
(* expectancy lookup (get_base_life_expectancy), the additive lifestyle    *)
(* modifiers (apply_lifestyle_modifiers) and the request handler predict,  *)
(* which clamps the adjusted expectancy against the current age and turns  *)
(* it into a calendar date.                                                *)
(*                                                                         *)
(* Representation.  Year amounts of the tables are decimal numbers with    *)
(* one decimal; they are kept as integers in tenths of a year (74.5 is     *)
(* 745).  Quantities that mix years and days are kept in "ticks":          *)
(* 1 day = 40000 ticks and 1 year = 365.2425 days = 14609700 ticks, so     *)
(* that days / 365.2425, 0.25 years, 0.1 years and 0.01 years are all      *)
(* whole numbers of ticks and the arithmetic of predict is exact.  Dates   *)
(* are <<year, month, day>> triples; date differences and date + timedelta *)
(* go through proleptic Gregorian ordinals as datetime.date does.          *)
(* Strings that the code inspects (country) are sequences of one-character *)
(* strings.  A bmi is a record [nan, x10]: a float that is either NaN or   *)
(* the number x10 / 10.                                                    *)
(***************************************************************************)
EXTENDS Integers, Sequences, FiniteSets, TLC

VARIABLES
    today,   \* the current date, what date.today() returns (main.py line 126)
    call,    \* the call in progress: its name and arguments, or Idle
    result   \* what the call returns or raises, or NoResult

vars == <<today, call, result>>

-----------------------------------------------------------------------------
(* Bounds of the model *)

\* longest run of whitespace put before or after a country name
MaxPad == 1

\* number of days the clock advances past each starting date
MaxClock == 3

-----------------------------------------------------------------------------
(* datetime.date: proleptic Gregorian calendar arithmetic *)

IsLeap(y) == y % 4 = 0 /\ (y % 100 # 0 \/ y % 400 = 0)

DaysInMonth(y, m) ==
    IF m = 2 THEN (IF IsLeap(y) THEN 29 ELSE 28)
    ELSE IF m \in {4, 6, 9, 11} THEN 30 ELSE 31

DaysBeforeYear(y) ==
    (y - 1) * 365 + (y - 1) \div 4 - (y - 1) \div 100 + (y - 1) \div 400

RECURSIVE DaysBeforeMonth(_, _)
DaysBeforeMonth(y, m) ==
    IF m = 1 THEN 0 ELSE DaysBeforeMonth(y, m - 1) + DaysInMonth(y, m - 1)

\* date.toordinal(): 0001-01-01 is day 1
Ymd2Ord(dt) == DaysBeforeYear(dt[1]) + DaysBeforeMonth(dt[1], dt[2]) + dt[3]

\* date.fromordinal(): the 400/100/4/1-year cycle decomposition
Ord2Ymd(ord) ==
    LET n0   == ord - 1
        n400 == n0 \div 146097
        r400 == n0 % 146097
        n100 == r400 \div 36524
        r100 == r400 % 36524
        n4   == r100 \div 1461
        r4   == r100 % 1461
        n1   == r4 \div 365
        n    == r4 % 365
        year == n400 * 400 + 1 + n100 * 100 + n4 * 4 + n1
    IN  IF n1 = 4 \/ n100 = 4
        THEN <<year - 1, 12, 31>>
        ELSE LET month == CHOOSE m \in 1..12 :
                              /\ DaysBeforeMonth(year, m) <= n
                              /\ n < DaysBeforeMonth(year, m) + DaysInMonth(year, m)
             IN  <<year, month, n - DaysBeforeMonth(year, month) + 1>>

\* d2 - d1 as a timedelta, in days
DateDiffDays(d2, d1) == Ymd2Ord(d2) - Ymd2Ord(d1)

\* faulty variant: the timedelta is subtracted
DatePlusDays_subtracts(d, n) == Ord2Ymd(Ymd2Ord(d) - n)

\* d + timedelta(days = n)
DatePlusDays(d, n) == Ord2Ymd(Ymd2Ord(d) + n)

\* faulty variant: >= for >, so that a dob of today is taken as a future one
DateAfter_orEqual(d1, d2) == Ymd2Ord(d1) >= Ymd2Ord(d2)

\* d1 > d2 on dates
DateAfter(d1, d2) == Ymd2Ord(d1) > Ymd2Ord(d2)

IsValidDate(dt) ==
    /\ dt[1] \in 1..9999
    /\ dt[2] \in 1..12
    /\ dt[3] \in 1..DaysInMonth(dt[1], dt[2])

-----------------------------------------------------------------------------
(* Fixed-point units *)

\* 365.2425 days per year, times 10^4
DaysPerYearE4 == 3652425

TicksPerDay == 4 * 10000

TicksPerYear == 4 * DaysPerYearE4

TicksPerTenth == TicksPerYear \div 10

TicksPerHundredth == TicksPerYear \div 100

\* a number of tenths of a year, in ticks
TenthsToTicks(t) == t * TicksPerTenth

\* faulty variant: truncation, int(x) for int(round(x))
RoundHalfEven_truncates(num, den) == num \div den

\* round(num / den) to the nearest integer, ties to the even one, den > 0:
\* Python's round() on a float
RoundHalfEven(num, den) ==
    LET q == num \div den
        r == num % den
    IN  IF 2 * r > den \/ (2 * r = den /\ q % 2 = 1) THEN q + 1 ELSE q

\* round(x, 2) of a value x given in ticks, in hundredths of a year
Round2(ticks) == RoundHalfEven(ticks, TicksPerHundredth)

Max(a, b) == IF a >= b THEN a ELSE b

-----------------------------------------------------------------------------
(* str.strip() and str.lower() on sequences of characters *)

Whitespace == {" ", "\t", "\n"}

Uppers == <<"A", "B", "C", "D", "E", "F", "G", "H", "I", "J", "K", "L", "M",
            "N", "O", "P", "Q", "R", "S", "T", "U", "V", "W", "X", "Y", "Z">>

Lowers == <<"a", "b", "c", "d", "e", "f", "g", "h", "i", "j", "k", "l", "m",
            "n", "o", "p", "q", "r", "s", "t", "u", "v", "w", "x", "y", "z">>

LowerChar(c) ==
    IF \E i \in 1..Len(Uppers) : Uppers[i] = c
    THEN Lowers[CHOOSE i \in 1..Len(Uppers) : Uppers[i] = c]
    ELSE c

Lower(s) == [i \in 1..Len(s) |-> LowerChar(s[i])]

RECURSIVE LStrip(_)
LStrip(s) ==
    IF s # <<>> /\ Head(s) \in Whitespace THEN LStrip(Tail(s)) ELSE s

RECURSIVE RStrip(_)
RStrip(s) ==
    IF s # <<>> /\ s[Len(s)] \in Whitespace
    THEN RStrip(SubSeq(s, 1, Len(s) - 1))
    ELSE s

Strip(s) == RStrip(LStrip(s))

-----------------------------------------------------------------------------
(* dict operations *)

EmptyDict == [k \in {} |-> 0]

\* d[k] = v
DictSet(d, k, v) == [x \in DOMAIN d \cup {k} |-> IF x = k THEN v ELSE d[x]]

\* d.get(k, default)
DictGet(d, k, default) == IF k \in DOMAIN d THEN d[k] ELSE default

-----------------------------------------------------------------------------
(* Lookup resolver.  Values in tenths of a year. *)

LIFE_TABLE ==
    (<<"u", "s", "a">> :> [male |-> 745, female |-> 802]) @@
    (<<"u", "n", "i", "t", "e", "d", " ", "s", "t", "a", "t", "e", "s">> :> [male |-> 745, female |-> 802]) @@
    (<<"u", "k">> :> [male |-> 790, female |-> 829]) @@
    (<<"u", "n", "i", "t", "e", "d", " ", "k", "i", "n", "g", "d", "o", "m">> :> [male |-> 790, female |-> 829]) @@
    (<<"c", "a", "n", "a", "d", "a">> :> [male |-> 800, female |-> 840]) @@
    (<<"a", "u", "s", "t", "r", "a", "l", "i", "a">> :> [male |-> 812, female |-> 853]) @@
    (<<"g", "e", "r", "m", "a", "n", "y">> :> [male |-> 787, female |-> 834]) @@
    (<<"i", "n", "d", "i", "a">> :> [male |-> 672, female |-> 695]) @@
    (<<"j", "a", "p", "a", "n">> :> [male |-> 815, female |-> 875]) @@
    (<<"f", "r", "a", "n", "c", "e">> :> [male |-> 794, female |-> 853])

\* faulty variant: the two fallback values swapped
global_avg_swapped == [male |-> 750, female |-> 700]

global_avg == [male |-> 700, female |-> 750]

\* faulty variant: the key is trimmed but not lower-cased
CountryKey_noLower(country) == Strip(country)

CountryKey(country) == Lower(Strip(country))

get_base_life_expectancy(country, sex) ==
    LET key == CountryKey(country)
    IN  IF key \notin DOMAIN LIFE_TABLE
        THEN global_avg[sex]
        ELSE LIFE_TABLE[key][sex]

-----------------------------------------------------------------------------
(* Modifier engine.  bmi is [nan, x10]; every comparison with NaN is false. *)

\* bmi < x, x given in tenths
BmiLt(bmi, x10) == ~bmi.nan /\ bmi.x10 < x10

\* x <= bmi, x given in tenths
BmiGe(bmi, x10) == ~bmi.nan /\ x10 <= bmi.x10

\* faulty variant: the buckets closed at their upper ends
bmi_adjustment_closedAbove(bmi) ==
    IF ~bmi.nan /\ bmi.x10 <= 185 THEN -20
    ELSE IF ~bmi.nan /\ bmi.x10 <= 250 THEN 5
    ELSE IF ~bmi.nan /\ bmi.x10 <= 300 THEN -5
    ELSE IF ~bmi.nan /\ bmi.x10 <= 350 THEN -20
    ELSE -40

bmi_adjustment(bmi) ==
    IF BmiLt(bmi, 185) THEN -20
    ELSE IF BmiGe(bmi, 185) /\ BmiLt(bmi, 250) THEN 5
    ELSE IF BmiGe(bmi, 250) /\ BmiLt(bmi, 300) THEN -5
    ELSE IF BmiGe(bmi, 300) /\ BmiLt(bmi, 350) THEN -20
    ELSE -40

smoking_map ==
    [none |-> 15, former |-> -10, light |-> -20, moderate |-> -40, heavy |-> -70]

alcohol_map == [none |-> 5, moderate |-> 0, heavy |-> -30]

exercise_map == [sedentary |-> -20, light |-> -5, moderate |-> 10, high |-> 20]

smoking_adjustment(smoking_status) == DictGet(smoking_map, smoking_status, -20)

alcohol_adjustment(alcohol_use) == DictGet(alcohol_map, alcohol_use, 0)

exercise_adjustment(exercise_level) == DictGet(exercise_map, exercise_level, 0)

\* faulty variant: an entry is recorded only for a category its map knows
apply_lifestyle_modifiers_skipsUnknown(base, bmi, smoking_status, alcohol_use, exercise_level) ==
    LET a1 == DictSet(EmptyDict, "bmi", bmi_adjustment(bmi))
        x1 == base + a1["bmi"]
        a2 == IF smoking_status \in DOMAIN smoking_map
              THEN DictSet(a1, "smoking", smoking_map[smoking_status]) ELSE a1
        x2 == x1 + DictGet(a2, "smoking", 0)
        a3 == IF alcohol_use \in DOMAIN alcohol_map
              THEN DictSet(a2, "alcohol", alcohol_map[alcohol_use]) ELSE a2
        x3 == x2 + DictGet(a3, "alcohol", 0)
        a4 == IF exercise_level \in DOMAIN exercise_map
              THEN DictSet(a3, "exercise", exercise_map[exercise_level]) ELSE a3
        x4 == x3 + DictGet(a4, "exercise", 0)
    IN  <<x4, a4>>

\* faulty variant: the exercise adjustment is recorded but not added
apply_lifestyle_modifiers_dropsExercise(base, bmi, smoking_status, alcohol_use, exercise_level) ==
    LET a1 == DictSet(EmptyDict, "bmi", bmi_adjustment(bmi))
        x1 == base + a1["bmi"]
        a2 == DictSet(a1, "smoking", smoking_adjustment(smoking_status))
        x2 == x1 + a2["smoking"]
        a3 == DictSet(a2, "alcohol", alcohol_adjustment(alcohol_use))
        x3 == x2 + a3["alcohol"]
        a4 == DictSet(a3, "exercise", exercise_adjustment(exercise_level))
    IN  <<x3, a4>>

\* returns <<adjusted, adjustments>>
apply_lifestyle_modifiers(base, bmi, smoking_status, alcohol_use, exercise_level) ==
    LET a1 == DictSet(EmptyDict, "bmi", bmi_adjustment(bmi))
        x1 == base + a1["bmi"]
        a2 == DictSet(a1, "smoking", smoking_adjustment(smoking_status))
        x2 == x1 + a2["smoking"]
        a3 == DictSet(a2, "alcohol", alcohol_adjustment(alcohol_use))
        x3 == x2 + a3["alcohol"]
        a4 == DictSet(a3, "exercise", exercise_adjustment(exercise_level))
        x4 == x3 + a4["exercise"]
    IN  <<x4, a4>>

-----------------------------------------------------------------------------
(* Lifespan composer *)

\* (d2 - d1).days / 365.2425, in ticks
years_between(d1, d2) == DateDiffDays(d2, d1) * TicksPerDay

\* faulty variant: a buffer of 0.2 years
minimal_future_fifth == TicksPerYear \div 5

\* faulty variant: no buffer
minimal_future_none == TicksPerYear - TicksPerYear

\* 0.25 years, in ticks
minimal_future == TicksPerYear \div 4

DobInFuture == "Date of birth cannot be in the future"

HTTPException(status_code, detail) ==
    [status |-> status_code, detail |-> detail]

\* base and adjusted in tenths of a year, lifespan_years and current_age in ticks
PredictionResponse(estimated_date, base, lifespan_years, current_age, modifiers) ==
    [status |-> 200,
     estimated_death_date |-> estimated_date,
     base_life_expectancy_years |-> Round2(TenthsToTicks(base)),
     adjusted_life_expectancy_years |-> Round2(lifespan_years),
     current_age_years |-> Round2(current_age),
     modifiers_applied |-> modifiers]

predict(req, now) ==
    IF DateAfter(req.dob, now)
    THEN HTTPException(400, DobInFuture)
    ELSE LET base_expectancy == get_base_life_expectancy(req.country, req.sex)
             am == apply_lifestyle_modifiers(base_expectancy, req.bmi,
                       req.smoking_status, req.alcohol_use, req.exercise_level)
             adjusted_expectancy == TenthsToTicks(am[1])
             modifiers == am[2]
             current_age == Max(0, years_between(req.dob, now))
             lifespan_years == Max(adjusted_expectancy, current_age + minimal_future)
             estimated_days == RoundHalfEven(lifespan_years, TicksPerDay)
             estimated_date == DatePlusDays(req.dob, estimated_days)
         IN  PredictionResponse(estimated_date, base_expectancy, lifespan_years,
                                current_age, modifiers)

-----------------------------------------------------------------------------
(* Inputs *)

UpperChar(c) ==
    IF \E i \in 1..Len(Lowers) : Lowers[i] = c
    THEN Uppers[CHOOSE i \in 1..Len(Lowers) : Lowers[i] = c]
    ELSE c

Upper(s) == [i \in 1..Len(s) |-> UpperChar(s[i])]

Capitalize(s) == [i \in 1..Len(s) |-> IF i = 1 THEN UpperChar(s[i]) ELSE s[i]]

CaseVariants(w) == {w, Upper(w), Capitalize(w)}

PadChars == {" ", "\t"}

Pads == UNION {[1..n -> PadChars] : n \in 0..MaxPad}

\* names that are no key of the table, also after trimming and lower-casing
UnknownWords ==
    {<<"a", "t", "l", "a", "n", "t", "i", "s">>,
     <<>>,
     <<"u", "s">>,
     <<"u", " ", "s", " ", "a">>,
     <<"u", "s", "a", ".">>,
     <<"u", "n", "i", "t", "e", "d", "s", "t", "a", "t", "e", "s">>}

Words == DOMAIN LIFE_TABLE \cup UnknownWords

Countries ==
    {l \o v \o r : l \in Pads, r \in Pads, v \in UNION {CaseVariants(w) : w \in Words}}

PredictCountries ==
    {<<"u", "s", "a">>,
     <<" ", "U", "S", "A", " ">>,
     <<"J", "a", "p", "a", "n">>,
     <<"i", "n", "d", "i", "a", "\t">>,
     <<"A", "t", "l", "a", "n", "t", "i", "s">>}

Sexes == {"male", "female"}

SmokingLiteral == {"none", "former", "light", "moderate", "heavy"}

AlcoholLiteral == {"none", "moderate", "heavy"}

ExerciseLiteral == {"sedentary", "light", "moderate", "high"}

\* strings of no category map
Unrecognized == {"", "HEAVY"}

AnyCategory == SmokingLiteral \cup AlcoholLiteral \cup ExerciseLiteral \cup Unrecognized

NaN == [nan |-> TRUE, x10 |-> 0]

Num(x10) == [nan |-> FALSE, x10 |-> x10]

\* bmi values in tenths: both sides of every bucket boundary, and NaN
BmiValues ==
    {Num(x) : x \in {-10, 0, 184, 185, 220, 249, 250, 299, 300, 349, 350, 400}}
        \cup {NaN}

PredictBmis == {Num(x) : x \in {184, 185, 220, 270, 349, 400}} \cup {NaN}

BaseValues == {672, 875}

StartDates == {<<2026, 11, 5>>, <<2067, 9, 30>>}

DobDates ==
    {<<1930, 6, 15>>, <<1960, 2, 29>>, <<1990, 1, 1>>, <<2026, 11, 5>>,
     <<2026, 11, 7>>, <<2067, 10, 1>>, <<2100, 1, 1>>}

Requests ==
    [dob : DobDates, sex : Sexes, country : PredictCountries, bmi : PredictBmis,
     smoking_status : SmokingLiteral, alcohol_use : AlcoholLiteral,
     exercise_level : ExerciseLiteral]

-----------------------------------------------------------------------------
(* State machine: one call at a time, each computed from its arguments and *)
(* the current date alone.                                                 *)

Idle == [op |-> "idle"]

NoResult == [status |-> 0]

Init ==
    /\ today \in StartDates
    /\ call = Idle
    /\ result = NoResult

\* POST /api/predict with a body that passed validation
Predict ==
    /\ call.op = "idle"
    /\ \E req \in Requests :
          /\ call' = [op |-> "predict", req |-> req]
          /\ result' = predict(req, today)
    /\ UNCHANGED today

GetBaseLifeExpectancy ==
    /\ call.op = "idle"
    /\ \E country \in Countries, sex \in Sexes :
          /\ call' = [op |-> "get_base_life_expectancy",
                      country |-> country, sex |-> sex]
          /\ result' = [value |-> get_base_life_expectancy(country, sex)]
    /\ UNCHANGED today

ApplyLifestyleModifiers ==
    /\ call.op = "idle"
    /\ \E base \in BaseValues, bmi \in BmiValues,
          s \in AnyCategory, a \in AnyCategory, e \in AnyCategory :
          /\ call' = [op |-> "apply_lifestyle_modifiers", base |-> base,
                      bmi |-> bmi, smoking_status |-> s, alcohol_use |-> a,
                      exercise_level |-> e]
          /\ result' = LET am == apply_lifestyle_modifiers(base, bmi, s, a, e)
                       IN  [adjusted |-> am[1], adjustments |-> am[2]]
    /\ UNCHANGED today

\* the call is over; nothing is kept between calls
Return ==
    /\ call.op # "idle"
    /\ call' = Idle
    /\ result' = NoResult
    /\ UNCHANGED today

\* midnight passes: date.today() moves on by one day
AdvanceDay ==
    /\ call.op = "idle"
    /\ \E s \in StartDates : DateDiffDays(today, s) \in 0..(MaxClock - 1)
    /\ today' = DatePlusDays(today, 1)
    /\ UNCHANGED <<call, result>>

Next ==
    \/ Predict
    \/ GetBaseLifeExpectancy
    \/ ApplyLifestyleModifiers
    \/ Return
    \/ AdvanceDay

Spec == Init /\ [][Next]_vars

-----------------------------------------------------------------------------
(* Vocabulary of the properties, defined without the operators of the code *)

\* a is an earlier date than b, compared field by field
YmdLess(a, b) ==
    \/ a[1] < b[1]
    \/ a[1] = b[1] /\ a[2] < b[2]
    \/ a[1] = b[1] /\ a[2] = b[2] /\ a[3] < b[3]

\* c and d are the same letter in any case, or the same character
SameLetter(c, d) ==
    \/ c = d
    \/ \E i \in 1..Len(Uppers) : {c, d} = {Uppers[i], Lowers[i]}

\* country is the word w in some mix of cases, between two runs of whitespace
IsVariantOf(country, w) ==
    \E i \in 0..Len(country) :
        /\ i + Len(w) <= Len(country)
        /\ \A n \in 1..i : country[n] \in Whitespace
        /\ \A n \in 1..Len(w) : SameLetter(country[i + n], w[n])
        /\ \A n \in (i + Len(w) + 1)..Len(country) : country[n] \in Whitespace

FactorNames == {"bmi", "smoking", "alcohol", "exercise"}

PredictAccepted == call.op = "predict" /\ result.status = 200

\* base + total modifier of an accepted request, in tenths of a year,
\* from the figures of the response
RawAdjustedTenths ==
    result.base_life_expectancy_years \div 10
        + result.modifiers_applied["bmi"] + result.modifiers_applied["smoking"]
        + result.modifiers_applied["alcohol"] + result.modifiers_applied["exercise"]

\* days from the dob of the request to today
AgeDays == Ymd2Ord(today) - Ymd2Ord(call.req.dob)

\* base + total modifier >= current age + 0.25 years, compared in ticks
RawCoversBuffer ==
    RawAdjustedTenths * TicksPerTenth >= AgeDays * TicksPerDay + TicksPerYear \div 4

\* the bmi table of the specification, for a number of tenths
ExpectedBmi(x10) ==
    CASE x10 < 185 -> -20
      [] 185 <= x10 /\ x10 < 250 -> 5
      [] 250 <= x10 /\ x10 < 300 -> -5
      [] 300 <= x10 /\ x10 < 350 -> -20
      [] 350 <= x10 -> -40

ExpectedSmoking(c) ==
    CASE c = "none" -> 15 [] c = "former" -> -10 [] c = "light" -> -20
      [] c = "moderate" -> -40 [] c = "heavy" -> -70 [] OTHER -> -20

ExpectedAlcohol(c) ==
    CASE c = "none" -> 5 [] c = "moderate" -> 0 [] c = "heavy" -> -30
      [] OTHER -> 0

ExpectedExercise(c) ==
    CASE c = "sedentary" -> -20 [] c = "light" -> -5 [] c = "moderate" -> 10
      [] c = "high" -> 20 [] OTHER -> 0

\* the breakdown d is the table's value for each factor
MatchesTables(d, bmi, s, a, e) ==
    /\ ~bmi.nan => d["bmi"] = ExpectedBmi(bmi.x10)
    /\ d["smoking"] = ExpectedSmoking(s)
    /\ d["alcohol"] = ExpectedAlcohol(a)
    /\ d["exercise"] = ExpectedExercise(e)

-----------------------------------------------------------------------------
(* Properties *)

C2_RejectsExactlyFutureDob ==
    call.op = "predict" =>
        IF YmdLess(today, call.req.dob)
        THEN /\ DOMAIN result = {"status", "detail"}
             /\ result.status = 400
             /\ result.detail = "Date of birth cannot be in the future"
        ELSE /\ DOMAIN result =
                    {"status", "estimated_death_date", "base_life_expectancy_years",
                     "adjusted_life_expectancy_years", "current_age_years",
                     "modifiers_applied"}
             /\ result.status = 200
             /\ IsValidDate(result.estimated_death_date)
             /\ DOMAIN result.modifiers_applied = FactorNames

\* a request whose dob is tomorrow is rejected
C2_Witness ==
    /\ call.op = "predict"
    /\ Ymd2Ord(call.req.dob) = Ymd2Ord(today) + 1
    /\ result.status = 400

\* C3: for every accepted request the estimated_death_date is after today.
C3_DeathDateInFuture ==
    PredictAccepted => YmdLess(today, result.estimated_death_date)

\* an accepted request whose base + total modifier is more than 30 years
\* below the current age
C3_Witness ==
    /\ PredictAccepted
    /\ RawAdjustedTenths * 10 + 3000 < result.current_age_years
    /\ YmdLess(today, result.estimated_death_date)

\* C4: for every accepted request current_age_years >= 0 and the
\* estimated_death_date is not before dob.
C4_AgeAndDateNotNegative ==
    PredictAccepted =>
        /\ result.current_age_years >= 0
        /\ ~YmdLess(result.estimated_death_date, call.req.dob)

\* an accepted request of a subject born today
C4_Witness ==
    /\ PredictAccepted
    /\ call.req.dob = today
    /\ result.current_age_years = 0
    /\ YmdLess(call.req.dob, result.estimated_death_date)

\* C5: a country written in any mix of cases and between any whitespace
\* gives the base expectancy of the trimmed, lower-cased word; for a key of
\* the table that is the table's entry.
C5_LookupIgnoresCaseAndPadding ==
    call.op = "get_base_life_expectancy" =>
        \A w \in Words :
            IsVariantOf(call.country, w) =>
                /\ result.value = get_base_life_expectancy(w, call.sex)
                /\ w \in DOMAIN LIFE_TABLE => result.value = LIFE_TABLE[w][call.sex]

\* " Usa<tab>" for a male subject gives the entry of usa
C5_Witness ==
    /\ call.op = "get_base_life_expectancy"
    /\ call.country = <<" ", "U", "s", "a", "\t">>
    /\ call.sex = "male"
    /\ result.value = 745

\* C6: a country that is no key of the table after trimming and lower-casing
\* gives exactly 70.0 (male) or 75.0 (female), from the lookup and as the
\* base reported by predict, whatever the other fields are.
C6_UnknownCountryFallback ==
    /\ call.op = "get_base_life_expectancy" =>
          ((\E w \in UnknownWords : IsVariantOf(call.country, w)) =>
              result.value = IF call.sex = "male" THEN 700 ELSE 750)
    /\ PredictAccepted =>
          ((\E w \in UnknownWords : IsVariantOf(call.req.country, w)) =>
              result.base_life_expectancy_years =
                  IF call.req.sex = "male" THEN 7000 ELSE 7500)

\* Atlantis, female, with the most unfavourable lifestyle: base 75.0
C6_Witness ==
    /\ PredictAccepted
    /\ call.req.country = <<"A", "t", "l", "a", "n", "t", "i", "s">>
    /\ call.req.sex = "female"
    /\ call.req.smoking_status = "heavy"
    /\ call.req.bmi = Num(400)
    /\ result.base_life_expectancy_years = 7500

\* the request of the worked example, at a date where the subject is
\* younger than 77.75 years
C7_Example ==
    /\ call.op = "predict"
    /\ call.req = [dob |-> <<1990, 1, 1>>, sex |-> "male",
                   country |-> <<"u", "s", "a">>, bmi |-> Num(220),
                   smoking_status |-> "none", alcohol_use |-> "none",
                   exercise_level |-> "moderate"]
    /\ AgeDays >= 0
    /\ AgeDays * TicksPerDay < 7775 * TicksPerHundredth

C7_ExampleFigures ==
    /\ result.status = 200
    /\ result.base_life_expectancy_years = 7450
    /\ result.modifiers_applied =
           [bmi |-> 5, smoking |-> 15, alcohol |-> 5, exercise |-> 10]
    /\ result.adjusted_life_expectancy_years = 7800

\* C7 as stated: the example's estimated_death_date is 2067-12-02, give or
\* take one day.
C7_Original ==
    C7_Example =>
        /\ C7_ExampleFigures
        /\ result.estimated_death_date
               \in {<<2067, 12, 1>>, <<2067, 12, 2>>, <<2067, 12, 3>>}

\* C7: the example gives base 74.5, modifiers +0.5, +1.5, +0.5, +1.0,
\* adjusted 78.0, and the estimated_death_date 1990-01-01 + 28489 days,
\* which is 2068-01-01.
C7_ExampleDate ==
    C7_Example =>
        /\ C7_ExampleFigures
        /\ Ymd2Ord(result.estimated_death_date) - Ymd2Ord(call.req.dob) = 28489
        /\ result.estimated_death_date = <<2068, 1, 1>>

\* the example evaluated on 2026-11-05
C7_Witness ==
    /\ C7_Example
    /\ today = <<2026, 11, 5>>
    /\ result.estimated_death_date = <<2068, 1, 1>>

\* C8: the breakdown has exactly the four entries bmi, smoking, alcohol and
\* exercise, from apply_lifestyle_modifiers for any bmi and any strings, and
\* as modifiers_applied of predict.
C8_FourEntries ==
    /\ call.op = "apply_lifestyle_modifiers" =>
          /\ DOMAIN result.adjustments = FactorNames
          /\ Cardinality(DOMAIN result.adjustments) = 4
    /\ PredictAccepted =>
          /\ DOMAIN result.modifiers_applied = FactorNames
          /\ Cardinality(DOMAIN result.modifiers_applied) = 4

\* a call with a NaN bmi and three strings that no map knows
C8_Witness ==
    /\ call.op = "apply_lifestyle_modifiers"
    /\ call.bmi = NaN
    /\ call.smoking_status \in Unrecognized
    /\ call.alcohol_use \in Unrecognized
    /\ call.exercise_level \in Unrecognized
    /\ DOMAIN result.adjustments = FactorNames

\* C9: each factor's modifier is the value of the specification's table for
\* that factor's input alone: the half-open bmi buckets for every number,
\* the three category maps, and the defaults -2.0, 0.0, 0.0 for a string
\* its map does not know.
C9_ModifiersMatchTables ==
    /\ call.op = "apply_lifestyle_modifiers" =>
          MatchesTables(result.adjustments, call.bmi, call.smoking_status,
                        call.alcohol_use, call.exercise_level)
    /\ PredictAccepted =>
          MatchesTables(result.modifiers_applied, call.req.bmi,
                        call.req.smoking_status, call.req.alcohol_use,
                        call.req.exercise_level)

\* bmi on the boundary 18.5 and three strings that their maps do not know
C9_Witness ==
    /\ call.op = "apply_lifestyle_modifiers"
    /\ call.bmi = Num(185)
    /\ call.smoking_status = "HEAVY"
    /\ call.alcohol_use = "light"
    /\ call.exercise_level = "none"
    /\ result.adjustments = [bmi |-> 5, smoking |-> -20, alcohol |-> 0, exercise |-> 0]

\* C10: the adjusted expectancy of apply_lifestyle_modifiers is base + the
\* sum of the four values of the breakdown, unclamped (base - 16.0 for
\* bmi 40, heavy, heavy, sedentary); predict reports that value as
\* adjusted_life_expectancy_years whenever it is >= current age + 0.25.
C10_AdjustedIsBasePlusSum ==
    /\ call.op = "apply_lifestyle_modifiers" =>
          /\ result.adjusted =
                 call.base + result.adjustments["bmi"] + result.adjustments["smoking"]
                     + result.adjustments["alcohol"] + result.adjustments["exercise"]
          /\ (/\ call.bmi = Num(400)
              /\ call.smoking_status = "heavy"
              /\ call.alcohol_use = "heavy"
              /\ call.exercise_level = "sedentary") => result.adjusted = call.base - 160
    /\ (PredictAccepted /\ RawCoversBuffer) =>
          result.adjusted_life_expectancy_years = RawAdjustedTenths * 10

\* the most unfavourable lifestyle, base 67.2: adjusted 51.2
C10_Witness ==
    /\ call.op = "apply_lifestyle_modifiers"
    /\ call.base = 672
    /\ call.bmi = Num(400)
    /\ call.smoking_status = "heavy"
    /\ call.alcohol_use = "heavy"
    /\ call.exercise_level = "sedentary"
    /\ result.adjusted = 512

====
